---- MODULE Spec2Model ----
(***************************************************************************)
(* Query-processing pipeline of the legal AI service: the three submit     *)
(* routes (text, voice, files), processQuery with its side tasks, the      *)
(* completion and failure handlers, and the response routes (rate,         *)
(* publish, article generation), over the persisted store.                 *)
(***************************************************************************)
EXTENDS Integers, Sequences, FiniteSets, TLC

\* Number of submissions the model follows (each gets the next query id).
MaxQueries == 2

Req == 1..MaxQueries

NULL == "null"
NoRow == "none"
\* SQL NULL of a vector column, of the rating column, and the value null of JSON
NullVector == << >>
NoRating == 0
JsonNull == [usable |-> FALSE, text |-> {}]
\* an absent row of table queries
NoQuery == [status |-> NoRow, text |-> {}]

\* tags seeded by the schema that the modelled texts can match
Tags == {"Nasledstvo", "DTP"}

\* keyword table of autoTagQuery, restricted to the seeded tags of the model
tagKeywords ==
  [t \in Tags |-> IF t = "Nasledstvo"
                  THEN {"nasledstvo", "naslednik", "zaveshchanie", "nasledovanie"}
                  ELSE {"dtp", "avariya", "strahovka", "osago", "kasko"}]

\* a text is modelled by the set of keywords that occur in it as substrings
Texts == { {"nasledstvo", "avariya"} }

\* text column written by the voice and files routes before the real text is known
VoicePlaceholder == {"processing", "audio"}
FilesPlaceholder == {"analyzing", "uploaded", "files"}

\* bounds of the text route's length validator
MinTextLen == 10
MaxTextLen == 5000

\* lengths tried for a submitted text: both sides of both limits
TextLengths == {MinTextLen - 1, MinTextLen, MaxTextLen, MaxTextLen + 1}

\* the files of a files request: none (rejected) or two
FileCounts == {0, 2}
\* words the extraction collaborator finds in each uploaded file
ExtractedWords == {"avariya"}
\* words of the text the transcription collaborator returns
TranscribedWords == {"nasledstvo", "avariya"}

\* similarity threshold of findSimilarQueries, in percent
SimilarityThresholdPct == 80
\* LIMIT of findSimilarQueries
SimilarLimit == 5

VARIABLES
  db,             \* the persisted store: queries, responses, query_tags, activity_logs
  pc,             \* position of each submission's handler / promise chain
  text,           \* text argument handed to processQuery
  similarQueries, \* rows returned to processQuery by findSimilarQueries
  aiResponse,     \* processQuery's local aiResponse
  embedding,      \* processQuery's local embedding
  emitted,        \* realtime events emitted, <<queryId, event>>
  reply,          \* HTTP reply of the submit request
  raised,         \* the error the chain's .catch handler is running for
  webhooks,       \* requests made to the automation endpoint, counted per query
  articleTasks,   \* detached generateSEOArticle chains in flight, per query and stage
  opReply,        \* HTTP reply of the latest call to a response route
  openTx,         \* rating held by the rate transaction that is open on each query
  call,           \* latest direct call of an engine function or helper: name, arguments
  result          \* what that call returned or raised

vars == <<db, pc, text, similarQueries, aiResponse, embedding,
          emitted, reply, raised, webhooks, articleTasks, opReply, openTx,
          call, result>>

pipelineVars == <<pc, text, similarQueries, aiResponse, embedding, emitted, reply,
                  raised, webhooks>>
responseVars == <<articleTasks, opReply, openTx>>
callVars == <<call, result>>

\* no engine function or helper has been called directly
NoCall == [fn |-> "none"]


-----------------------------------------------------------------------------
(* The store and the transaction helper *)

\* A row of table responses, as INSERT INTO responses (query_id, ai_response) leaves it
NewResponse(ai) ==
  [ai_response |-> ai, is_published |-> FALSE, seo_article |-> NULL,
   rating |-> NoRating, embedding |-> NullVector]

EmptyStore ==
  [queries       |-> [q \in Req |-> NoQuery],
   responses     |-> [q \in Req |-> << >>],
   query_tags    |-> {},
   activity_logs |-> {}]

\* UPDATE responses SET <field> = v WHERE query_id = q : every matching row
SetOnResponses(rows, field, v) ==
  [i \in 1..Len(rows) |-> [rows[i] EXCEPT ![field] = v]]

\* (an insert_tag that first deletes the query's other associations)
Exec_TagReplaces(d, s) ==
  CASE s.op = "insert_query" ->
         [d EXCEPT !.queries[s.id] = [status |-> s.status, text |-> s.text]]
    [] s.op = "update_status" ->
         IF d.queries[s.id].status = NoRow THEN d
         ELSE [d EXCEPT !.queries[s.id].status = s.status]
    [] s.op = "update_text" ->
         IF d.queries[s.id].status = NoRow THEN d
         ELSE [d EXCEPT !.queries[s.id].text = s.text]
    [] s.op = "insert_response" ->
         [d EXCEPT !.responses[s.id] = Append(@, NewResponse(s.ai))]
    [] s.op = "update_response" ->
         [d EXCEPT !.responses[s.id] = SetOnResponses(@, s.field, s.value)]
    [] s.op = "insert_tag" ->
         [d EXCEPT !.query_tags = {p \in @ : p[1] # s.id} \cup {<<s.id, s.tag>>}]
    [] s.op = "insert_file" -> d
    [] s.op = "insert_log" ->
         [d EXCEPT !.activity_logs =
              @ \cup {[action |-> s.action, queryId |-> s.id, details |-> s.details]}]

\* One SQL statement applied to the store d
Exec(d, s) ==
  CASE s.op = "insert_query" ->
         [d EXCEPT !.queries[s.id] = [status |-> s.status, text |-> s.text]]
    [] s.op = "update_status" ->
         IF d.queries[s.id].status = NoRow THEN d
         ELSE [d EXCEPT !.queries[s.id].status = s.status]
    [] s.op = "update_text" ->
         IF d.queries[s.id].status = NoRow THEN d
         ELSE [d EXCEPT !.queries[s.id].text = s.text]
    [] s.op = "insert_response" ->
         [d EXCEPT !.responses[s.id] = Append(@, NewResponse(s.ai))]
    [] s.op = "update_response" ->
         [d EXCEPT !.responses[s.id] = SetOnResponses(@, s.field, s.value)]
    [] s.op = "insert_tag" ->
         [d EXCEPT !.query_tags = @ \cup {<<s.id, s.tag>>}]
    [] s.op = "insert_file" -> d   \* table processed_files is not part of the modelled store
    [] s.op = "insert_log" ->
         [d EXCEPT !.activity_logs =
              @ \cup {[action |-> s.action, queryId |-> s.id, details |-> s.details]}]

Min(a, b) == IF a < b THEN a ELSE b

RECURSIVE ExecAll(_, _)
ExecAll(d, stmts) ==
  IF stmts = << >> THEN d ELSE ExecAll(Exec(d, Head(stmts)), Tail(stmts))

\* Where a transaction of n statements can raise: 0 nowhere, k at statement k,
\* n + 1 at COMMIT
FailPoints(stmts) == 0..(Len(stmts) + 1)

\* (a helper that issues no ROLLBACK: what ran before the raise stays applied)
transaction_NoRollback(d, stmts, failAt) ==
  IF failAt = 0 THEN ExecAll(d, stmts)
  ELSE ExecAll(d, SubSeq(stmts, 1, Min(failAt, Len(stmts) + 1) - 1))

\* transaction(callback): BEGIN, the callback's statements, COMMIT; a raise at
\* failAt issues ROLLBACK and leaves the store as it was
transaction(d, stmts, failAt) ==
  IF failAt = 0 THEN ExecAll(d, stmts) ELSE d

-----------------------------------------------------------------------------
(* Embedding provider and similarity search *)

Dot(a, b) == a[1] * b[1] + a[2] * b[2]
Norm2(a) == Dot(a, a)

\* The embedding provider, as a two-dimensional keyword-count vector of the text
ProviderVector(words) ==
  <<Cardinality(words \cap tagKeywords["Nasledstvo"]),
    Cardinality(words \cap tagKeywords["DTP"])>>

\* 1 - (a <=> b) > pct / 100 : cosine similarity strictly above the threshold
\* (NULL or a zero vector never compares above it)
CosineAbove(a, b, pct) ==
  /\ a # NullVector /\ b # NullVector
  /\ Dot(a, b) > 0
  /\ 10000 * Dot(a, b) * Dot(a, b) > pct * pct * Norm2(a) * Norm2(b)

\* ORDER BY r.embedding <=> e : a lies strictly closer to e than b does
Closer(a, b, e) ==
  Dot(a, e) * Dot(a, e) * Norm2(b) > Dot(b, e) * Dot(b, e) * Norm2(a)

\* (a WHERE clause that lets rows without a persisted embedding through)
SimilarCandidates_AnyRow(d, e) ==
  {c \in Req \X (1..MaxQueries) :
     d.queries[c[1]].status # NoRow /\ c[2] <= Len(d.responses[c[1]])}

\* Rows of responses JOIN queries that pass the WHERE clause for vector e
SimilarCandidates(d, e) ==
  {c \in Req \X (1..MaxQueries) :
     /\ d.queries[c[1]].status # NoRow
     /\ c[2] <= Len(d.responses[c[1]])
     /\ CosineAbove(d.responses[c[1]][c[2]].embedding, e, SimilarityThresholdPct)}

\* The result sets the SELECT of findSimilarQueries may return: the closest
\* SimilarLimit candidates in order of distance (ties in any order), each row
\* carrying q.text (id names the row it came from)
SelectSimilar(d, e) ==
  LET C == SimilarCandidates(d, e)
      k == Min(SimilarLimit, Cardinality(C))
      emb(c) == d.responses[c[1]][c[2]].embedding
      picks == {s \in [1..k -> C] :
                  /\ \A i, j \in 1..k : i < j =>
                        s[i] # s[j] /\ ~Closer(emb(s[j]), emb(s[i]), e)
                  /\ \A c \in C : (\A i \in 1..k : s[i] # c) =>
                        \A i \in 1..k : ~Closer(emb(c), emb(s[i]), e)}
  IN {[i \in 1..k |-> [id |-> s[i][1], text |-> d.queries[s[i][1]].text]] : s \in picks}

-----------------------------------------------------------------------------
(* State after construction *)

Init ==
  /\ db = EmptyStore
  /\ pc = [q \in Req |-> "idle"]
  /\ text = [q \in Req |-> {}]
  /\ similarQueries = [q \in Req |-> << >>]
  /\ aiResponse = [q \in Req |-> JsonNull]
  /\ embedding = [q \in Req |-> NullVector]
  /\ emitted = {}
  /\ reply = [q \in Req |-> "none"]
  /\ raised = [q \in Req |-> "none"]
  /\ webhooks = [q \in Req |-> 0]
  /\ articleTasks = [q \in Req |-> [generating |-> 0, saving |-> 0]]
  /\ opReply = [route |-> "none", id |-> 0, code |-> "none"]
  /\ openTx = [q \in Req |-> NoRating]
  /\ call = NoCall
  /\ result = NoCall

\* reading the store
Status(q) == db.queries[q].status
NumResponses(q) == Len(db.responses[q])
TagsOf(d, q) == {t \in Tags : <<q, t>> \in d.query_tags}
Terminal == {"completed", "failed"}

\* ids are handed out in order: q is the next request to arrive
NextRequest(q) == pc[q] = "idle" /\ \A p \in Req : p < q => pc[p] # "idle"

\* the promise chain leaves processQuery and its callers' scopes: their locals are gone
Finish(q) ==
  /\ text' = [text EXCEPT ![q] = {}]
  /\ similarQueries' = [similarQueries EXCEPT ![q] = << >>]
  /\ aiResponse' = [aiResponse EXCEPT ![q] = JsonNull]
  /\ embedding' = [embedding EXCEPT ![q] = NullVector]

\* the request is answered with an error before any pipeline exists
Reject(q, code) ==
  /\ pc' = [pc EXCEPT ![q] = "done"]
  /\ reply' = [reply EXCEPT ![q] = code]
  /\ UNCHANGED <<text, similarQueries, aiResponse, embedding, emitted, raised, webhooks>>

\* the submit transaction of the text and voice routes: the Query row and the
\* create_query audit record (of its details only the query id is modelled)
SubmitStatements(q, rowText) ==
  <<[op |-> "insert_query", id |-> q, text |-> rowText, status |-> "processing"],
    [op |-> "insert_log", action |-> "create_query", id |-> q, details |-> 0]>>

\* after the submit transaction: emit query-status, start the chain, reply
\* (a raising emit lands in the route's catch: 500, and no chain is started)
Launch(q, first, t, emitOk) ==
  IF emitOk
  THEN /\ emitted' = emitted \cup {<<q, "query-status">>}
       /\ pc' = [pc EXCEPT ![q] = first]
       /\ text' = [text EXCEPT ![q] = t]
       /\ reply' = [reply EXCEPT ![q] = "200"]
       /\ UNCHANGED <<similarQueries, aiResponse, embedding, raised, webhooks>>
  ELSE Reject(q, "500")

IsValidLength(len) == len >= MinTextLen /\ len <= MaxTextLen

\* router.post('/text')
submitText(q) ==
  /\ UNCHANGED <<responseVars, callVars>>
  /\ NextRequest(q)
  /\ \E t \in Texts, len \in TextLengths :
       IF ~IsValidLength(len)
       THEN Reject(q, "400") /\ UNCHANGED db
       ELSE \E failAt \in FailPoints(SubmitStatements(q, t)), emitOk \in BOOLEAN :
              /\ db' = transaction(db, SubmitStatements(q, t), failAt)
              /\ IF failAt # 0 THEN Reject(q, "500")
                 ELSE Launch(q, "findSimilarQueries", t, emitOk)

\* router.post('/voice'): upload, submit transaction, emit, start transcription
submitVoice(q) ==
  /\ UNCHANGED <<responseVars, callVars>>
  /\ NextRequest(q)
  /\ \E hasFile \in BOOLEAN, uploadOk \in BOOLEAN :
       IF ~hasFile THEN Reject(q, "400") /\ UNCHANGED db
       ELSE IF ~uploadOk THEN Reject(q, "500") /\ UNCHANGED db
       ELSE \E failAt \in FailPoints(SubmitStatements(q, VoicePlaceholder)),
               emitOk \in BOOLEAN :
              /\ db' = transaction(db, SubmitStatements(q, VoicePlaceholder), failAt)
              /\ IF failAt # 0 THEN Reject(q, "500")
                 ELSE Launch(q, "transcribeAudio", {}, emitOk)

\* router.post('/files'), up to the per-file loop: no Query row exists yet
submitFiles(q) ==
  /\ UNCHANGED <<responseVars, callVars>>
  /\ NextRequest(q)
  /\ UNCHANGED db
  /\ \E n \in FileCounts, t \in Texts :
       IF n = 0 THEN Reject(q, "400")
       ELSE /\ pc' = [pc EXCEPT ![q] = "extractTextFromFile"]
            /\ text' = [text EXCEPT ![q] = t]
            /\ UNCHANGED <<similarQueries, aiResponse, embedding, emitted, reply,
                           raised, webhooks>>

FilesStatements(q, rowText) ==
  <<[op |-> "insert_query", id |-> q, text |-> rowText, status |-> "processing"],
    [op |-> "insert_file", id |-> q, file |-> 1],
    [op |-> "insert_file", id |-> q, file |-> 2],
    [op |-> "insert_log", action |-> "create_query", id |-> q, details |-> 0]>>

\* router.post('/files'), from the per-file upload and extraction loop on
extractTextFromFile(q) ==
  /\ UNCHANGED <<responseVars, callVars>>
  /\ pc[q] = "extractTextFromFile"
  /\ \E loopOk \in BOOLEAN :
       IF ~loopOk THEN Reject(q, "500") /\ UNCHANGED db
       ELSE LET rowText == IF text[q] = {} THEN FilesPlaceholder ELSE text[q]
                finalText == text[q] \cup ExtractedWords
            IN \E failAt \in FailPoints(FilesStatements(q, rowText)), emitOk \in BOOLEAN :
                 /\ db' = transaction(db, FilesStatements(q, rowText), failAt)
                 /\ IF failAt # 0 THEN Reject(q, "500")
                    ELSE Launch(q, "findSimilarQueries", finalText, emitOk)

\* a step of the promise chain raised: control passes to the route's .catch,
\* and the locals of the steps before it are gone
ToCatch(q, cause) ==
  /\ pc' = [pc EXCEPT ![q] = "onRejected"]
  /\ raised' = [raised EXCEPT ![q] = cause]
  /\ Finish(q)

\* transcribeAudio(audioPath), the voice chain's first stage
transcribeAudio(q) ==
  /\ UNCHANGED <<responseVars, callVars>>
  /\ pc[q] = "transcribeAudio"
  /\ \E ok \in BOOLEAN :
       IF ok THEN /\ pc' = [pc EXCEPT ![q] = "updateText"]
                  /\ text' = [text EXCEPT ![q] = TranscribedWords]
                  /\ UNCHANGED <<raised, similarQueries, aiResponse, embedding>>
       ELSE ToCatch(q, "transcribeAudio")
  /\ UNCHANGED <<db, emitted, reply, webhooks>>

\* the voice chain's first .then: UPDATE queries SET text, then processQuery
updateText(q) ==
  /\ UNCHANGED <<responseVars, callVars>>
  /\ pc[q] = "updateText"
  /\ \E ok \in BOOLEAN :
       IF ok THEN /\ db' = Exec(db, [op |-> "update_text", id |-> q, text |-> text[q]])
                  /\ pc' = [pc EXCEPT ![q] = "findSimilarQueries"]
                  /\ UNCHANGED <<raised, text, similarQueries, aiResponse, embedding>>
       ELSE ToCatch(q, "updateText") /\ UNCHANGED db
  /\ UNCHANGED <<emitted, reply, webhooks>>

-----------------------------------------------------------------------------
(* processQuery *)

\* getEmbedding(text): the provider's vector for the text
getEmbedding(words) == ProviderVector(words)

\* findSimilarQueries(text): any raise inside it is caught and yields []
findSimilarQueries(q) ==
  /\ UNCHANGED <<responseVars, callVars>>
  /\ pc[q] = "findSimilarQueries"
  /\ \E embedOk \in BOOLEAN, selectOk \in BOOLEAN :
       IF embedOk /\ selectOk
       THEN \E rows \in SelectSimilar(db, getEmbedding(text[q])) :
              similarQueries' = [similarQueries EXCEPT ![q] = rows]
       ELSE similarQueries' = [similarQueries EXCEPT ![q] = << >>]
  /\ pc' = [pc EXCEPT ![q] = "completion"]
  /\ UNCHANGED <<db, text, aiResponse, embedding, emitted, reply,
                 raised, webhooks>>

\* bodies the completion provider may return
Bodies ==
  {[kind |-> k, text |-> {"zaveshchanie"}] : k \in {"json_object", "not_json", "json_null"}}

\* JSON.parse(responseText) with the fallback of its catch
parse(body) ==
  CASE body.kind = "json_object" -> [usable |-> TRUE, text |-> body.text]
    [] body.kind = "not_json"    -> [usable |-> TRUE, text |-> body.text]
    [] body.kind = "json_null"   -> JsonNull

\* openai.chat.completions.create and the parse of its body
completion(q) ==
  /\ UNCHANGED <<responseVars, callVars>>
  /\ pc[q] = "completion"
  /\ \/ /\ ToCatch(q, "completion")
     \/ \E body \in Bodies :
          /\ aiResponse' = [aiResponse EXCEPT ![q] = parse(body)]
          /\ pc' = [pc EXCEPT ![q] = "getEmbedding"]
          /\ UNCHANGED <<raised, text, similarQueries, embedding>>
  /\ UNCHANGED <<db, emitted, reply, webhooks>>

\* const embedding = await getEmbedding(text + ' ' + aiResponse.text)
embedAnswer(q) ==
  /\ UNCHANGED <<responseVars, callVars>>
  /\ pc[q] = "getEmbedding"
  /\ IF aiResponse[q] = JsonNull
     THEN ToCatch(q, "aiResponse.text")
     ELSE \E ok \in BOOLEAN :
            IF ok
            THEN /\ embedding' = [embedding EXCEPT
                                    ![q] = getEmbedding(text[q] \cup aiResponse[q].text)]
                 /\ pc' = [pc EXCEPT ![q] = "updateEmbedding"]
                 /\ UNCHANGED <<raised, text, similarQueries, aiResponse>>
            ELSE ToCatch(q, "getEmbedding")
  /\ UNCHANGED <<db, emitted, reply, webhooks>>

\* UPDATE responses SET embedding = $1 WHERE query_id = $2
updateEmbedding(q) ==
  /\ UNCHANGED <<responseVars, callVars>>
  /\ pc[q] = "updateEmbedding"
  /\ \E ok \in BOOLEAN :
       IF ok
       THEN /\ db' = Exec(db, [op |-> "update_response", id |-> q,
                                field |-> "embedding", value |-> embedding[q]])
            /\ pc' = [pc EXCEPT ![q] = "autoTagQuery"]
            /\ UNCHANGED <<raised, text, similarQueries, aiResponse, embedding>>
       ELSE ToCatch(q, "updateEmbedding") /\ UNCHANGED db
  /\ UNCHANGED <<emitted, reply, webhooks>>

\* order of the entries of tagKeywords
TagOrder == <<"Nasledstvo", "DTP">>

\* tags with a keyword occurring in the (lower-cased) text, in table order
classify(words) ==
  SelectSeq(TagOrder, LAMBDA t : tagKeywords[t] \cap words # {})

TagStatements(q, tags) ==
  [i \in 1..Len(tags) |-> [op |-> "insert_tag", id |-> q, tag |-> tags[i]]]

\* autoTagQuery: one INSERT ... ON CONFLICT DO NOTHING per matched tag, each its own
\* statement; the first that raises ends the loop, and the raise is swallowed
autoTagQuery(q) ==
  /\ UNCHANGED <<responseVars, callVars>>
  /\ pc[q] = "autoTagQuery"
  /\ LET matchedTags == classify(text[q] \cup aiResponse[q].text)
     IN \E done \in 0..Len(matchedTags) :
          db' = ExecAll(db, TagStatements(q, SubSeq(matchedTags, 1, done)))
  /\ pc' = [pc EXCEPT ![q] = "sendN8nWebhook"]
  /\ UNCHANGED <<text, similarQueries, aiResponse, embedding, emitted,
                 reply, raised, webhooks>>

\* (a sender whose catch rethrows a failed delivery to processQuery)
sendN8nWebhook_Rethrow(q) ==
  /\ UNCHANGED <<responseVars, callVars>>
  /\ pc[q] = "sendN8nWebhook"
  /\ \E outcome \in {"unconfigured", "sent", "failed"} :
       /\ webhooks' = IF outcome = "unconfigured" THEN webhooks
                      ELSE [webhooks EXCEPT ![q] = @ + 1]
       /\ IF outcome = "failed"
          THEN ToCatch(q, "sendN8nWebhook")
          ELSE /\ pc' = [pc EXCEPT ![q] = "onFulfilled"]
               /\ UNCHANGED <<text, similarQueries, aiResponse, embedding, raised>>
  /\ UNCHANGED <<db, emitted, reply>>

\* sendN8nWebhook('new-response', ...): with no URL configured it returns at once;
\* otherwise one fetch, whose network error or non-ok status is caught and logged.
\* Nothing it does raises to the caller
sendN8nWebhook(q) ==
  /\ UNCHANGED <<responseVars, callVars>>
  /\ pc[q] = "sendN8nWebhook"
  /\ \E outcome \in {"unconfigured", "sent", "failed"} :
       webhooks' = IF outcome = "unconfigured" THEN webhooks
                   ELSE [webhooks EXCEPT ![q] = @ + 1]
  /\ pc' = [pc EXCEPT ![q] = "onFulfilled"]
  /\ UNCHANGED <<db, text, similarQueries, aiResponse, embedding, emitted,
                 reply, raised>>

-----------------------------------------------------------------------------
(* The routes' completion (.then) and failure (.catch) handlers *)

CompletionStatements(q, ai) ==
  <<[op |-> "update_status", id |-> q, status |-> "completed"],
    [op |-> "insert_response", id |-> q, ai |-> ai]>>

FailureStatements(q) ==
  <<[op |-> "update_status", id |-> q, status |-> "failed"]>>

\* .then(async (aiResponse) => { transaction(...); emit('query-completed') })
onFulfilled(q) ==
  /\ UNCHANGED <<responseVars, callVars>>
  /\ pc[q] = "onFulfilled"
  /\ \E failAt \in FailPoints(CompletionStatements(q, aiResponse[q])), emitOk \in BOOLEAN :
       /\ db' = transaction(db, CompletionStatements(q, aiResponse[q]), failAt)
       /\ IF failAt # 0 THEN ToCatch(q, "transaction") /\ UNCHANGED emitted
          ELSE IF ~emitOk THEN ToCatch(q, "emit") /\ UNCHANGED emitted
          ELSE /\ emitted' = emitted \cup {<<q, "query-completed">>}
               /\ pc' = [pc EXCEPT ![q] = "done"]
               /\ Finish(q)
               /\ UNCHANGED raised
  /\ UNCHANGED <<reply, webhooks>>

\* (a handler that emits query-error before its transaction has committed)
onRejected_EmitBeforeCommit(q) ==
  /\ UNCHANGED <<responseVars, callVars>>
  /\ pc[q] = "onRejected"
  /\ \E failAt \in FailPoints(FailureStatements(q)), emitOk \in BOOLEAN :
       /\ db' = transaction(db, FailureStatements(q), failAt)
       /\ emitted' = IF emitOk THEN emitted \cup {<<q, "query-error">>} ELSE emitted
  /\ pc' = [pc EXCEPT ![q] = "done"]
  /\ raised' = [raised EXCEPT ![q] = "none"]
  /\ UNCHANGED <<text, similarQueries, aiResponse, embedding, reply,
                 webhooks>>

\* (a handler that, having marked the query failed, runs processQuery again)
onRejected_Retry(q) ==
  /\ UNCHANGED <<responseVars, callVars>>
  /\ pc[q] = "onRejected"
  /\ \E failAt \in FailPoints(FailureStatements(q)), emitOk \in BOOLEAN :
       /\ db' = transaction(db, FailureStatements(q), failAt)
       /\ emitted' = IF failAt = 0 /\ emitOk
                     THEN emitted \cup {<<q, "query-error">>} ELSE emitted
  /\ pc' = [pc EXCEPT ![q] = IF raised[q] = "completion" THEN "completion" ELSE "done"]
  /\ raised' = [raised EXCEPT ![q] = "none"]
  /\ UNCHANGED <<text, similarQueries, aiResponse, embedding, reply,
                 webhooks>>

\* .catch(async (error) => { transaction(...); emit('query-error') }); a raise in
\* it is an unhandled rejection and ends the chain
onRejected(q) ==
  /\ UNCHANGED <<responseVars, callVars>>
  /\ pc[q] = "onRejected"
  /\ \E failAt \in FailPoints(FailureStatements(q)), emitOk \in BOOLEAN :
       /\ db' = transaction(db, FailureStatements(q), failAt)
       /\ emitted' = IF failAt = 0 /\ emitOk
                     THEN emitted \cup {<<q, "query-error">>} ELSE emitted
  /\ pc' = [pc EXCEPT ![q] = "done"]
  /\ raised' = [raised EXCEPT ![q] = "none"]
  /\ UNCHANGED <<text, similarQueries, aiResponse, embedding, reply,
                 webhooks>>

-----------------------------------------------------------------------------

Next ==
  \E q \in Req :
    \/ submitText(q)
    \/ submitVoice(q)
    \/ submitFiles(q)
    \/ extractTextFromFile(q)
    \/ transcribeAudio(q)
    \/ updateText(q)
    \/ findSimilarQueries(q)
    \/ completion(q)
    \/ embedAnswer(q)
    \/ updateEmbedding(q)
    \/ autoTagQuery(q)
    \/ sendN8nWebhook(q)
    \/ onFulfilled(q)
    \/ onRejected(q)

Spec == Init /\ [][Next]_vars

-----------------------------------------------------------------------------
(* The response routes: rate, publish, and the detached article generation *)

\* isInt({ min: 1, max: 5 }) of the rate route, and its article threshold
MinRating == 1
MaxRating == 5
ArticleRatingThreshold == 4

\* ratings tried: outside the validator's range, below and at the article threshold
RatingInputs == {MinRating - 1, ArticleRatingThreshold - 1, ArticleRatingThreshold}

\* article generation chains the model lets run at once
MaxArticleTasks == 2

TasksInFlight == 
  LET Sum(q) == articleTasks[q].generating + articleTasks[q].saving
      RECURSIVE Total(_)
      Total(S) == IF S = {} THEN 0
                  ELSE LET x == CHOOSE x \in S : TRUE IN Sum(x) + Total(S \ {x})
  IN Total(Req)

Reply(route, q, code) == opReply' = [route |-> route, id |-> q, code |-> code]

\* (an UPDATE that rewrites the whole row from the request, dropping the embedding)
RateStatements_RewriteRow(q, rating) ==
  <<[op |-> "update_response", id |-> q, field |-> "rating", value |-> rating],
    [op |-> "update_response", id |-> q, field |-> "embedding", value |-> NullVector],
    [op |-> "insert_log", action |-> "rate_response", id |-> q, details |-> rating]>>

\* the statements of the rate route's transaction before its conditional SELECT
RateStatements(q, rating) ==
  <<[op |-> "update_response", id |-> q, field |-> "rating", value |-> rating],
    [op |-> "insert_log", action |-> "rate_response", id |-> q, details |-> rating]>>

\* (a callback that starts the article generation without looking for a Response)
rate_LaunchWithoutResponse(q) ==
  /\ UNCHANGED <<pipelineVars, callVars>>
  /\ openTx[q] = NoRating
  /\ \E rating \in RatingInputs, owned \in BOOLEAN, selectOk \in BOOLEAN :
       IF rating < MinRating \/ rating > MaxRating
       THEN Reply("rate", q, "400") /\ UNCHANGED <<db, articleTasks, openTx>>
       ELSE IF ~selectOk
       THEN Reply("rate", q, "500") /\ UNCHANGED <<db, articleTasks, openTx>>
       ELSE IF Status(q) = NoRow \/ ~owned
       THEN Reply("rate", q, "404") /\ UNCHANGED <<db, articleTasks, openTx>>
       ELSE LET stmts == RateStatements(q, rating)
                high == rating >= ArticleRatingThreshold
                \* the callback's SELECT ai_response, issued only for a high rating
                last == Len(stmts) + (IF high THEN 1 ELSE 0)
            IN \E failAt \in 0..last :
                 \* generateSEOArticle is started inside the callback, once the
                 \* SELECT returned a row: before COMMIT
                 LET launched == high /\ failAt = 0
                 IN /\ launched => TasksInFlight < MaxArticleTasks
                    /\ db' = db
                    /\ articleTasks' =
                         IF launched
                         THEN [articleTasks EXCEPT ![q].generating = @ + 1]
                         ELSE articleTasks
                    /\ IF failAt = 0
                       THEN /\ openTx' = [openTx EXCEPT ![q] = rating]
                            /\ UNCHANGED opReply
                       ELSE /\ Reply("rate", q, "500")
                            /\ UNCHANGED openTx

\* router.post('/:queryId/rate'), up to the return of the transaction callback:
\* validation, the ownership SELECT, BEGIN and the callback's statements. A raise
\* in the callback is rolled back and answered 500; otherwise the transaction stays
\* open, holding the new rating, until COMMIT. (One rating call per query is
\* followed at a time: with a Response row, a second one waits for the row lock.)
rate(q) ==
  /\ UNCHANGED <<pipelineVars, callVars>>
  /\ openTx[q] = NoRating
  /\ \E rating \in RatingInputs, owned \in BOOLEAN, selectOk \in BOOLEAN :
       IF rating < MinRating \/ rating > MaxRating
       THEN Reply("rate", q, "400") /\ UNCHANGED <<db, articleTasks, openTx>>
       ELSE IF ~selectOk
       THEN Reply("rate", q, "500") /\ UNCHANGED <<db, articleTasks, openTx>>
       ELSE IF Status(q) = NoRow \/ ~owned
       THEN Reply("rate", q, "404") /\ UNCHANGED <<db, articleTasks, openTx>>
       ELSE LET stmts == RateStatements(q, rating)
                high == rating >= ArticleRatingThreshold
                \* the callback's SELECT ai_response, issued only for a high rating
                last == Len(stmts) + (IF high THEN 1 ELSE 0)
            IN \E failAt \in 0..last :
                 \* generateSEOArticle is started inside the callback, once the
                 \* SELECT returned a row: before COMMIT
                 LET launched == high /\ failAt = 0 /\ NumResponses(q) > 0
                 IN /\ launched => TasksInFlight < MaxArticleTasks
                    /\ db' = db
                    /\ articleTasks' =
                         IF launched
                         THEN [articleTasks EXCEPT ![q].generating = @ + 1]
                         ELSE articleTasks
                    /\ IF failAt = 0
                       THEN /\ openTx' = [openTx EXCEPT ![q] = rating]
                            /\ UNCHANGED opReply
                       ELSE /\ Reply("rate", q, "500")
                            /\ UNCHANGED openTx

\* the rest of router.post('/:queryId/rate'): COMMIT (or ROLLBACK when it raises),
\* then the reply
rateCommit(q) ==
  /\ UNCHANGED <<pipelineVars, callVars, articleTasks>>
  /\ openTx[q] # NoRating
  /\ LET stmts == RateStatements(q, openTx[q])
     IN \E commitOk \in BOOLEAN :
          /\ db' = transaction(db, stmts, IF commitOk THEN 0 ELSE Len(stmts) + 1)
          /\ Reply("rate", q, IF commitOk THEN "200" ELSE "500")
  /\ openTx' = [openTx EXCEPT ![q] = NoRating]

\* an UPDATE of query q's Response rows by another connection can proceed: no open
\* transaction holds their row locks
RowFree(q) == openTx[q] = NoRating \/ NumResponses(q) = 0

\* router.post('/:queryId/publish')
publish(q) ==
  /\ UNCHANGED <<pipelineVars, callVars, articleTasks, openTx>>
  /\ \E isPublished \in BOOLEAN, roleOk \in BOOLEAN, updateOk \in BOOLEAN,
        logOk \in BOOLEAN :
       IF ~roleOk THEN Reply("publish", q, "403") /\ UNCHANGED db
       ELSE IF ~updateOk THEN Reply("publish", q, "500") /\ UNCHANGED db
       ELSE IF NumResponses(q) = 0 THEN Reply("publish", q, "404") /\ UNCHANGED db
       ELSE LET updated == Exec(db, [op |-> "update_response", id |-> q,
                                     field |-> "is_published", value |-> isPublished])
            IN /\ RowFree(q)
               /\ IF logOk
                  THEN /\ db' = Exec(updated, [op |-> "insert_log",
                                               action |-> "publish_response", id |-> q,
                                               details |-> IF isPublished THEN 1 ELSE 0])
                       /\ Reply("publish", q, "200")
                  ELSE /\ db' = updated
                       /\ Reply("publish", q, "500")

\* (a catch that stores a placeholder article when the generation raised)
generateSEOArticle_StoresOnRaise(q) ==
  /\ articleTasks[q].generating > 0
  /\ UNCHANGED <<pipelineVars, callVars, opReply, openTx>>
  /\ \E completionOk \in BOOLEAN, updateOk \in BOOLEAN :
       IF completionOk /\ updateOk
       THEN /\ RowFree(q)
            /\ db' = Exec(db, [op |-> "update_response", id |-> q,
                               field |-> "seo_article", value |-> "article"])
            /\ articleTasks' = [articleTasks EXCEPT ![q].generating = @ - 1,
                                                    ![q].saving = @ + 1]
       ELSE /\ RowFree(q)
            /\ db' = Exec(db, [op |-> "update_response", id |-> q,
                               field |-> "seo_article", value |-> "unavailable"])
            /\ articleTasks' = [articleTasks EXCEPT ![q].generating = @ - 1]

\* generateSEOArticle(queryId, aiResponse): the completion call, then
\* UPDATE responses SET seo_article; a raise of either is logged and rethrown to
\* the rate route's .catch, which logs it
generateSEOArticle(q) ==
  /\ articleTasks[q].generating > 0
  /\ UNCHANGED <<pipelineVars, callVars, opReply, openTx>>
  /\ \E completionOk \in BOOLEAN, updateOk \in BOOLEAN :
       IF completionOk /\ updateOk
       THEN /\ RowFree(q)
            /\ db' = Exec(db, [op |-> "update_response", id |-> q,
                               field |-> "seo_article", value |-> "article"])
            /\ articleTasks' = [articleTasks EXCEPT ![q].generating = @ - 1,
                                                    ![q].saving = @ + 1]
       ELSE /\ db' = db
            /\ articleTasks' = [articleTasks EXCEPT ![q].generating = @ - 1]

\* the rate route's .then on generateSEOArticle: UPDATE responses SET seo_article
\* once more; a raise is logged by the .catch
saveArticle(q) ==
  /\ articleTasks[q].saving > 0
  /\ UNCHANGED <<pipelineVars, callVars, opReply, openTx>>
  /\ articleTasks' = [articleTasks EXCEPT ![q].saving = @ - 1]
  /\ \E updateOk \in BOOLEAN :
       IF updateOk
       THEN /\ RowFree(q)
            /\ db' = Exec(db, [op |-> "update_response", id |-> q,
                               field |-> "seo_article", value |-> "article"])
       ELSE db' = db

\* a vector the embedding column of an existing Response row may hold
StoredVector == <<2, 1>>

\* Stores the response routes are called on: query 1 is processing or failed
\* without a Response, failed or completed with one, the Response with or without
\* an embedding; the other queries do not exist
SeededStores ==
  {[EmptyStore EXCEPT
      !.queries[1] = [status |-> st, text |-> CHOOSE t \in Texts : TRUE],
      !.responses[1] = rows,
      !.activity_logs = {[action |-> "create_query", queryId |-> 1, details |-> 0]}] :
     st \in {"processing", "completed", "failed"},
     rows \in {<< >>} \cup
              {<<[NewResponse([usable |-> TRUE, text |-> {"zaveshchanie"}])
                    EXCEPT !.embedding = e]>> : e \in {NullVector, StoredVector}}}

InitResponses ==
  /\ db \in {d \in SeededStores :
               /\ d.queries[1].status = "completed" => Len(d.responses[1]) = 1
               /\ d.queries[1].status = "processing" => Len(d.responses[1]) = 0}
  /\ pc = [q \in Req |-> IF q = 1 THEN "done" ELSE "idle"]
  /\ text = [q \in Req |-> {}]
  /\ similarQueries = [q \in Req |-> << >>]
  /\ aiResponse = [q \in Req |-> JsonNull]
  /\ embedding = [q \in Req |-> NullVector]
  /\ emitted = {}
  /\ reply = [q \in Req |-> IF q = 1 THEN "200" ELSE "none"]
  /\ raised = [q \in Req |-> "none"]
  /\ webhooks = [q \in Req |-> 0]
  /\ articleTasks = [q \in Req |-> [generating |-> 0, saving |-> 0]]
  /\ opReply = [route |-> "none", id |-> 0, code |-> "none"]
  /\ openTx = [q \in Req |-> NoRating]
  /\ call = NoCall
  /\ result = NoCall

NextResponses ==
  \E q \in Req :
    \/ rate(q)
    \/ rateCommit(q)
    \/ publish(q)
    \/ generateSEOArticle(q)
    \/ saveArticle(q)

SpecResponses == InitResponses /\ [][NextResponses]_vars

-----------------------------------------------------------------------------
(* The embedding engine's functions *)

\* what a call gives its caller: a value, or a raise
Returned(v) == [raised |-> FALSE, value |-> v]
Threw(message) == [raised |-> TRUE, value |-> message]

\* similarities are held in hundredths: 80 stands for 0.8
SimilarityScale == 100

RECURSIVE SumOfProducts(_, _)
SumOfProducts(a, b) ==
  IF a = << >> THEN 0 ELSE Head(a) * Head(b) + SumOfProducts(Tail(a), Tail(b))

\* Math.sqrt of a sum of squares (the vectors of the model have whole lengths)
Sqrt(n) == CHOOSE r \in 0..n : r * r = n

\* cosineSimilarity(vectorA, vectorB)
cosineSimilarity(vectorA, vectorB) ==
  IF Len(vectorA) # Len(vectorB) THEN Threw("Vectors must have the same length")
  ELSE LET dotProduct == SumOfProducts(vectorA, vectorB)
           normA == Sqrt(SumOfProducts(vectorA, vectorA))
           normB == Sqrt(SumOfProducts(vectorB, vectorB))
       IN IF normA = 0 \/ normB = 0 THEN Returned(0)
          ELSE Returned((SimilarityScale * dotProduct) \div (normA * normB))

\* one step of sorting with (a, b) => b.similarity - a.similarity: item goes behind
\* every element that does not sort after it (Array.prototype.sort is stable)
InsertBySimilarity(item, sorted) ==
  LET k == Cardinality({i \in 1..Len(sorted) : sorted[i].similarity >= item.similarity})
  IN SubSeq(sorted, 1, k) \o <<item>> \o SubSeq(sorted, k + 1, Len(sorted))

RECURSIVE SortBySimilarity(_)
SortBySimilarity(items) ==
  IF items = << >> THEN << >>
  ELSE InsertBySimilarity(items[Len(items)],
                          SortBySimilarity(SubSeq(items, 1, Len(items) - 1)))

\* (a filter that drops the documents whose similarity equals the threshold)
findSimilarDocuments_StrictFilter(queryEmbedding, documentEmbeddings, threshold) ==
  IF \E i \in 1..Len(documentEmbeddings) :
       Len(documentEmbeddings[i]) # Len(queryEmbedding)
  THEN Threw("Failed to find similar documents")
  ELSE LET similarities ==
             [i \in 1..Len(documentEmbeddings) |->
                [index |-> i,
                 similarity |-> cosineSimilarity(queryEmbedding,
                                                 documentEmbeddings[i]).value]]
           filtered == SelectSeq(similarities, LAMBDA item : item.similarity > threshold)
       IN Returned(SortBySimilarity(filtered))

\* findSimilarDocuments(queryEmbedding, documentEmbeddings, threshold); a raise of
\* cosineSimilarity is rethrown. (Positions are counted from 1.)
findSimilarDocuments(queryEmbedding, documentEmbeddings, threshold) ==
  IF \E i \in 1..Len(documentEmbeddings) :
       Len(documentEmbeddings[i]) # Len(queryEmbedding)
  THEN Threw("Failed to find similar documents")
  ELSE LET similarities ==
             [i \in 1..Len(documentEmbeddings) |->
                [index |-> i,
                 similarity |-> cosineSimilarity(queryEmbedding,
                                                 documentEmbeddings[i]).value]]
           filtered == SelectSeq(similarities, LAMBDA item : item.similarity >= threshold)
       IN Returned(SortBySimilarity(filtered))

\* the inner loop of clusterDocuments from position j on: st holds the cluster
\* being built and the set used
RECURSIVE ClusterMembers(_, _, _, _, _)
ClusterMembers(embeddings, similarityThreshold, i, j, st) ==
  IF j > Len(embeddings) THEN st
  ELSE IF j \in st.used
  THEN ClusterMembers(embeddings, similarityThreshold, i, j + 1, st)
  ELSE IF cosineSimilarity(embeddings[i], embeddings[j]).value >= similarityThreshold
  THEN ClusterMembers(embeddings, similarityThreshold, i, j + 1,
                      [cluster |-> Append(st.cluster, j), used |-> st.used \cup {j}])
  ELSE ClusterMembers(embeddings, similarityThreshold, i, j + 1, st)

\* the outer loop of clusterDocuments from position i on; keepSingle tells whether
\* a cluster of one element is kept
RECURSIVE ClusterSeeds(_, _, _, _, _, _)
ClusterSeeds(embeddings, similarityThreshold, i, used, clusters, keepSingle) ==
  IF i > Len(embeddings) THEN clusters
  ELSE IF i \in used
  THEN ClusterSeeds(embeddings, similarityThreshold, i + 1, used, clusters, keepSingle)
  ELSE LET st == ClusterMembers(embeddings, similarityThreshold, i, i + 1,
                                [cluster |-> <<i>>, used |-> used \cup {i}])
       IN ClusterSeeds(embeddings, similarityThreshold, i + 1, st.used,
                       IF Len(st.cluster) > 1 \/ keepSingle
                       THEN Append(clusters, st.cluster) ELSE clusters,
                       keepSingle)

\* (a clustering that does not discard the clusters of one element)
clusterDocuments_KeepsSingletons(embeddings, similarityThreshold) ==
  IF \E j \in 1..Len(embeddings) : Len(embeddings[j]) # Len(embeddings[1])
  THEN Threw("Failed to cluster documents")
  ELSE Returned(ClusterSeeds(embeddings, similarityThreshold, 1, {}, << >>, TRUE))

\* clusterDocuments(embeddings, similarityThreshold): the first seed is compared with
\* every later vector, so a vector of another length makes cosineSimilarity raise,
\* which is rethrown. (Positions are counted from 1.)
clusterDocuments(embeddings, similarityThreshold) ==
  IF \E j \in 1..Len(embeddings) : Len(embeddings[j]) # Len(embeddings[1])
  THEN Threw("Failed to cluster documents")
  ELSE Returned(ClusterSeeds(embeddings, similarityThreshold, 1, {}, << >>, FALSE))

\* a vector of fractions: component i is num[i] / sqrt(den2)
Scaled(num, den2) == [num |-> num, den2 |-> den2]

\* (a normalization that hands every vector back as it came)
normalizeVector_Unscaled(vector) == vector

\* normalizeVector(vector): the vector itself when its magnitude is 0, else the
\* vector divided by its magnitude sqrt(SumOfProducts(num, num) / den2)
normalizeVector(vector) ==
  IF SumOfProducts(vector.num, vector.num) = 0 THEN vector
  ELSE Scaled(vector.num, SumOfProducts(vector.num, vector.num))

RECURSIVE SumOfVectors(_, _)
SumOfVectors(embeddings, dimension) ==
  IF embeddings = << >> THEN [i \in 1..dimension |-> 0]
  ELSE LET rest == SumOfVectors(Tail(embeddings), dimension)
       IN [i \in 1..dimension |-> Head(embeddings)[i] + rest[i]]

\* createClusterCentroid(embeddings): null for no embeddings, else the normalized
\* component-wise mean (each sum divided by embeddings.length)
createClusterCentroid(embeddings) ==
  IF Len(embeddings) = 0 THEN NULL
  ELSE LET dimension == Len(embeddings[1])
           centroid == Scaled(SumOfVectors(embeddings, dimension),
                              Len(embeddings) * Len(embeddings))
       IN normalizeVector(centroid)

-----------------------------------------------------------------------------
(* Direct calls of the engine's functions *)

\* vectors the functions are called with: whole lengths 0, 1 and 5, so that the
\* similarities 0, 0.6, 0.8, 0.96 and 1 are exact in floating point as well
VectorPool == {<<0, 0>>, <<1, 0>>, <<0, 1>>, <<4, 3>>, <<3, 4>>, <<-1, 0>>}
\* vectors of another dimension
OtherDimension == {<<0>>, <<5>>, <<0, 0, 0>>}

\* longest list of documents, of clustered embeddings, of averaged embeddings
MaxDocuments == 3
MaxClustered == 4
MaxAveraged == 3

SeqsUpTo(S, n) == UNION {[1..k -> S] : k \in 0..n}

\* thresholds passed by the callers: 0.8 is the default of findSimilarDocuments;
\* 0.96 separates <<4, 3>> and <<3, 4>> from the rest
Thresholds == {SimilarityThresholdPct, 96}

CosineCalls ==
  {[fn |-> "cosineSimilarity", vectorA |-> a, vectorB |-> b] :
     a \in VectorPool \cup OtherDimension, b \in VectorPool \cup OtherDimension}

DocumentCalls ==
  {[fn |-> "findSimilarDocuments", queryEmbedding |-> e, documentEmbeddings |-> docs,
    threshold |-> th] :
     e \in {<<1, 0>>, <<4, 3>>},
     docs \in SeqsUpTo({<<1, 0>>, <<4, 3>>, <<3, 4>>, <<0, 1>>}, MaxDocuments)
              \cup {<<(<<1, 0>>), (<<5>>)>>},
     th \in Thresholds}

ClusterCalls ==
  {[fn |-> "clusterDocuments", embeddings |-> embs, similarityThreshold |-> th] :
     embs \in SeqsUpTo({<<1, 0>>, <<4, 3>>, <<3, 4>>}, MaxClustered)
              \cup {<<(<<1, 0>>), (<<1, 0>>), (<<5>>)>>},
     th \in Thresholds}

CentroidCalls ==
  {[fn |-> "createClusterCentroid", embeddings |-> embs] :
     embs \in SeqsUpTo({<<1, 0>>, <<-1, 0>>, <<4, 3>>, <<0, 1>>}, MaxAveraged)}

\* Texts spelled out letter by letter, for the matching of autoTagQuery
Upper == <<"D", "T", "P", "N", "A">>
Lower == <<"d", "t", "p", "n", "a">>

\* String.prototype.toLowerCase
toLowerCase(str) ==
  [i \in 1..Len(str) |->
     IF \E u \in 1..Len(Upper) : Upper[u] = str[i]
     THEN Lower[CHOOSE u \in 1..Len(Upper) : Upper[u] = str[i]]
     ELSE str[i]]

\* String.prototype.includes
includes(str, keyword) ==
  \E at \in 0..(Len(str) - Len(keyword)) : SubSeq(str, at + 1, at + Len(keyword)) = keyword

\* the keyword table with its keywords spelled out, one keyword for each tag of
\* the model: 'наследник' and 'дтп'
keywordLetters ==
  [t \in Tags |-> IF t = "Nasledstvo"
                  THEN {<<"n", "a", "s", "l", "e", "d", "n", "i", "k">>}
                  ELSE {<<"d", "t", "p">>}]

\* (a matching that looks for the keywords in the text as it was written)
matchedTags_CaseSensitive(str, answer) ==
  LET textLower == str \o <<" ">> \o answer
  IN SelectSeq(TagOrder, LAMBDA tagName :
                 \E keyword \in keywordLetters[tagName] : includes(textLower, keyword))

\* the matchedTags of autoTagQuery(queryId, text, aiResponse), in table order
matchedTags(str, answer) ==
  LET textLower == toLowerCase(str \o <<" ">> \o answer)
  IN SelectSeq(TagOrder, LAMBDA tagName :
                 \E keyword \in keywordLetters[tagName] : includes(textLower, keyword))

\* question and answer texts: with and without a keyword, in either case, with a
\* keyword inside a longer word, cut in two, and empty
Spellings ==
  {<< >>, <<"D", "T", "P">>, <<"d", "t", "p">>, <<"d", "t">>, <<"p">>,
   <<"o", "d", "T", "p", "o">>, <<"d", " ", "t", "p">>,
   <<"N", "a", "s", "l", "e", "d", "n", "i", "k">>,
   <<"n", "a", "s", "l", "e", "d", "n", "i", "k", " ", "D", "t", "p">>,
   <<"n", "a", "s", "l", "e", "d">>}

TagCalls ==
  {[fn |-> "autoTagQuery", text |-> str, answer |-> ans] :
     str \in Spellings, ans \in Spellings}

\* The result sets the SELECT of findSimilarQueries may return on a table of
\* responses JOIN queries, each row with q.text and r.embedding: the rows that pass
\* the WHERE clause, closest first (ties in any order), cut at SimilarLimit
SelectFromRows(table, e) ==
  LET C == {i \in 1..Len(table) :
              CosineAbove(table[i].embedding, e, SimilarityThresholdPct)}
      k == Min(SimilarLimit, Cardinality(C))
      emb(i) == table[i].embedding
      picks == {s \in [1..k -> C] :
                  /\ \A i, j \in 1..k : i < j =>
                        s[i] # s[j] /\ ~Closer(emb(s[j]), emb(s[i]), e)
                  /\ \A c \in C : (\A i \in 1..k : s[i] # c) =>
                        \A i \in 1..k : ~Closer(emb(c), emb(s[i]), e)}
  IN {[i \in 1..k |-> [row |-> s[i], text |-> table[s[i]].text]] : s \in picks}

\* a row of responses JOIN queries with the embedding e
JoinedRow(e) == [text |-> {"avariya"}, embedding |-> e]

\* tables the search runs on: up to two rows without an embedding or at similarity
\* 1, 0.8, 0.6 and 0 to the question <<0, 1>>, and tables with more rows above the
\* threshold than the LIMIT lets through
RowTables ==
  {[i \in 1..Len(es) |-> JoinedRow(es[i])] :
     es \in SeqsUpTo({NullVector, <<0, 1>>, <<3, 4>>, <<4, 3>>, <<1, 0>>}, 2)
            \cup {<<(<<1, 3>>), (<<0, 1>>), (<<3, 4>>), (<<1, 2>>), NullVector,
                    (<<1, 4>>), (<<1, 5>>), (<<2, 5>>)>>,
                  <<(<<1, 2>>), (<<1, 2>>), (<<0, 1>>), (<<1, 2>>), (<<1, 2>>),
                    (<<1, 2>>), (<<4, 3>>)>>}}

\* in faults: whether getEmbedding or the SELECT raises during the call
QueryCalls ==
  {[fn |-> "findSimilarQueries", text |-> words, rows |-> table, faults |-> f] :
     words \in {{"avariya"}, {"nasledstvo", "avariya"}},
     table \in RowTables, f \in BOOLEAN}

\* most statements a transaction callback issues
MaxStatements == 2

\* Calls of the transaction helper. connect: pool.connect gives a client;
\* raisesAt: the command that raises inside the try block, with done the number
\* of statements the callback completed before it; rollback: ROLLBACK completes
TransactionCalls ==
  {c \in [fn : {"transaction"}, connect : BOOLEAN, statements : 0..MaxStatements,
          raisesAt : {"none", "BEGIN", "callback", "COMMIT"},
          done : 0..MaxStatements, rollback : BOOLEAN] :
     /\ c.done <= c.statements
     /\ c.raisesAt # "callback" => c.done = c.statements}

\* (a helper that releases the client behind the ROLLBACK instead of in finally)
transactionTrace_ReleaseInCatch(c) ==
  IF ~c.connect
  THEN [acquired |-> FALSE, commands |-> << >>, releases |-> 0,
        threw |-> TRUE, committed |-> FALSE]
  ELSE LET caught == c.raisesAt # "none"
           issued == IF c.raisesAt = "BEGIN" THEN 0 ELSE c.done
           tried == <<"BEGIN">> \o [i \in 1..issued |-> "statement"]
                    \o (IF c.raisesAt \in {"none", "COMMIT"} THEN <<"COMMIT">> ELSE << >>)
       IN [acquired |-> TRUE,
           commands |-> tried \o (IF caught THEN <<"ROLLBACK">> ELSE << >>),
           releases |-> IF caught /\ ~c.rollback THEN 0 ELSE 1,
           threw |-> caught,
           committed |-> ~caught]

\* What one run of transaction(callback) does with its client: the commands it
\* issues (the one that raises included), how often it releases the client,
\* whether it throws to its caller, and whether COMMIT completed. getClient raising
\* throws before the try block; catch issues ROLLBACK and rethrows (the error of
\* ROLLBACK when that raises); finally releases on every way out of the try block
transactionTrace(c) ==
  IF ~c.connect
  THEN [acquired |-> FALSE, commands |-> << >>, releases |-> 0,
        threw |-> TRUE, committed |-> FALSE]
  ELSE LET caught == c.raisesAt # "none"
           issued == IF c.raisesAt = "BEGIN" THEN 0 ELSE c.done
           tried == <<"BEGIN">> \o [i \in 1..issued |-> "statement"]
                    \o (IF c.raisesAt \in {"none", "COMMIT"} THEN <<"COMMIT">> ELSE << >>)
       IN [acquired |-> TRUE,
           commands |-> tried \o (IF caught THEN <<"ROLLBACK">> ELSE << >>),
           releases |-> 1,
           threw |-> caught,
           committed |-> ~caught]

Calls == CosineCalls \cup DocumentCalls \cup ClusterCalls \cup CentroidCalls \cup TagCalls \cup QueryCalls
         \cup TransactionCalls

\* the result of a call, under the name of the function called
ResultOf(fn, r) == [fn |-> fn, raised |-> r.raised, value |-> r.value]

\* a call is pending when its function has not run yet
Pending(fn) == call.fn = fn /\ result = NoCall

CallCosineSimilarity ==
  /\ Pending("cosineSimilarity")
  /\ result' = ResultOf(call.fn, cosineSimilarity(call.vectorA, call.vectorB))
  /\ UNCHANGED <<db, pipelineVars, responseVars, call>>

CallFindSimilarDocuments ==
  /\ Pending("findSimilarDocuments")
  /\ result' = ResultOf(call.fn, findSimilarDocuments(call.queryEmbedding,
                                   call.documentEmbeddings, call.threshold))
  /\ UNCHANGED <<db, pipelineVars, responseVars, call>>

CallClusterDocuments ==
  /\ Pending("clusterDocuments")
  /\ result' = ResultOf(call.fn, clusterDocuments(call.embeddings,
                                                  call.similarityThreshold))
  /\ UNCHANGED <<db, pipelineVars, responseVars, call>>

CallCreateClusterCentroid ==
  /\ Pending("createClusterCentroid")
  /\ result' = ResultOf(call.fn, Returned(createClusterCentroid(call.embeddings)))
  /\ UNCHANGED <<db, pipelineVars, responseVars, call>>

\* the matching of autoTagQuery alone (its inserts are the autoTagQuery step of
\* the pipeline)
CallMatchedTags ==
  /\ Pending("autoTagQuery")
  /\ result' = ResultOf(call.fn, Returned(matchedTags(call.text, call.answer)))
  /\ UNCHANGED <<db, pipelineVars, responseVars, call>>

\* findSimilarQueries(text) on a given table: a raise inside it yields []
CallFindSimilarQueries ==
  /\ Pending("findSimilarQueries")
  /\ IF call.faults
     THEN result' = ResultOf(call.fn, Returned(<< >>))
     ELSE \E rows \in SelectFromRows(call.rows, getEmbedding(call.text)) :
            result' = ResultOf(call.fn, Returned(rows))
  /\ UNCHANGED <<db, pipelineVars, responseVars, call>>

CallTransaction ==
  /\ Pending("transaction")
  /\ result' = ResultOf(call.fn, Returned(transactionTrace(call)))
  /\ UNCHANGED <<db, pipelineVars, responseVars, call>>

InitFunctions ==
  /\ db = EmptyStore
  /\ pc = [q \in Req |-> "idle"]
  /\ text = [q \in Req |-> {}]
  /\ similarQueries = [q \in Req |-> << >>]
  /\ aiResponse = [q \in Req |-> JsonNull]
  /\ embedding = [q \in Req |-> NullVector]
  /\ emitted = {}
  /\ reply = [q \in Req |-> "none"]
  /\ raised = [q \in Req |-> "none"]
  /\ webhooks = [q \in Req |-> 0]
  /\ articleTasks = [q \in Req |-> [generating |-> 0, saving |-> 0]]
  /\ opReply = [route |-> "none", id |-> 0, code |-> "none"]
  /\ openTx = [q \in Req |-> NoRating]
  /\ call \in Calls
  /\ result = NoCall

NextFunctions ==
  \/ CallCosineSimilarity
  \/ CallFindSimilarDocuments
  \/ CallClusterDocuments
  \/ CallCreateClusterCentroid
  \/ CallMatchedTags
  \/ CallFindSimilarQueries
  \/ CallTransaction

SpecFunctions == InitFunctions /\ [][NextFunctions]_vars

-----------------------------------------------------------------------------
(* Properties of the query lifecycle *)


\* C1: the persisted status of a query never moves from completed to failed nor
\* from failed to completed, whatever step or handler raises.
C1_StatusForwardOnly ==
  [][\A q \in Req :
       /\ (Status(q) = "completed" => db'.queries[q].status # "failed")
       /\ (Status(q) = "failed" => db'.queries[q].status # "completed")]_vars

\* C2: a completed query has exactly one Response row and a failed query has none.
C2_ResponseMatchesStatus ==
  \A q \in Req :
    /\ (Status(q) = "completed" => NumResponses(q) = 1)
    /\ (Status(q) = "failed" => NumResponses(q) = 0)

\* C3: an accepted submission (answered 200) whose promise chain has ended has a
\* terminal status: no query is left in status processing for good.
C3_EndsTerminal ==
  \A q \in Req :
    (pc[q] = "done" /\ reply[q] = "200") => Status(q) \in Terminal

\* the asynchronous stages named by C4
AsyncStages == {"transcribeAudio", "extractTextFromFile", "findSimilarQueries", "completion"}

\* C4: while any asynchronous stage of a query runs (transcription, per-file
\* extraction, context retrieval, AI completion) its Query row is already committed.
C4_RowBeforeAsyncStage ==
  \A q \in Req : pc[q] \in AsyncStages => Status(q) # NoRow

\* C5: status=completed and the Response insert are applied together or not at all:
\* a completed query always has its Response, a Response never belongs to a query
\* still in processing (or absent), and a completion transaction that raises leaves
\* the store as it was.
C5_CompletionAtomic ==
  /\ [](\A q \in Req :
         /\ (Status(q) = "completed" => NumResponses(q) >= 1)
         /\ (NumResponses(q) >= 1 => Status(q) \in Terminal))
  /\ [][\A q \in Req :
          (pc[q] = "onFulfilled" /\ raised'[q] = "transaction") => db' = db]_vars

\* a completion transaction raised and was rolled back: nothing of it is visible
C5_Witness ==
  \E q \in Req :
    /\ pc[q] = "onRejected" /\ raised[q] = "transaction"
    /\ Status(q) = "processing" /\ NumResponses(q) = 0

\* C6: when the AI completion call raised, the chain ends with status=failed, no
\* Response row, an error event emitted and no tag attached.
C6_AIFailureOutcome ==
  [][\A q \in Req :
       (pc[q] = "onRejected" /\ raised[q] = "completion" /\ pc'[q] = "done") =>
         /\ db'.queries[q].status = "failed"
         /\ Len(db'.responses[q]) = 0
         /\ <<q, "query-error">> \in emitted'
         /\ TagsOf(db', q) = {}]_vars

SideTaskSteps == {"getEmbedding", "updateEmbedding", "autoTagQuery", "sendN8nWebhook"}

\* C7: once the adapter holds a usable answer, no side task (embedding, auto-tagging,
\* automation event) makes the call fail: each side-task step is followed by the
\* next one, never by the failure handler.
C7_SideTasksIsolated ==
  [][\A q \in Req :
       (pc[q] \in SideTaskSteps /\ aiResponse[q].usable) => pc'[q] # "onRejected"]_vars

\* C8: a query that ended completed (AI completion and embedding call both
\* succeeded) has a Response row holding a non-null embedding.
C8_EmbeddingPersisted ==
  \A q \in Req :
    (pc[q] = "done" /\ Status(q) = "completed") =>
      \E i \in 1..NumResponses(q) : db.responses[q][i].embedding # NullVector

\* C9: a context row returned to a query comes from a Response whose embedding was
\* persisted when the retrieval ran; and the retrieval step, whether it finds
\* nothing or raises, leaves the store alone and hands over to the AI completion.
C9_ContextOnlyFromPersistedEmbeddings ==
  [][\A q \in Req :
       pc[q] = "findSimilarQueries" /\ pc'[q] # pc[q] =>
         /\ \A k \in 1..Len(similarQueries'[q]) :
              \E i \in 1..NumResponses(similarQueries'[q][k].id) :
                db.responses[similarQueries'[q][k].id][i].embedding # NullVector
         /\ pc'[q] = "completion"
         /\ db' = db]_vars

\* the second query's retrieval ran after the first had completed (its Response
\* row exists, without a persisted embedding) and returned an empty context, and the
\* second query goes on to the AI completion
C9_Witness ==
  \E p, q \in Req :
    /\ p # q
    /\ Status(p) = "completed" /\ NumResponses(p) = 1
    /\ pc[q] = "completion" /\ similarQueries[q] = << >>

-----------------------------------------------------------------------------
(* Properties of the adapter's parse step and of submit *)

\* C11: whatever body the completion provider returns, the parse step hands on a
\* usable answer object with a text field, and the query never goes to the failure
\* handler because of the body's shape (reading aiResponse.text never raises).
C11_ParseAlwaysUsable ==
  [][\A q \in Req :
       /\ (pc[q] = "completion" /\ pc'[q] = "getEmbedding" => aiResponse'[q].usable)
       /\ (pc[q] = "getEmbedding" => raised'[q] # "aiResponse.text")]_vars

\* every step that runs after a submit handler has read its request
ChainSteps ==
  AsyncStages \cup SideTaskSteps \cup {"updateText", "onFulfilled", "onRejected"}

\* C12: the success reply is given before any pipeline stage runs (no stage is
\* ever running for a request that has not been answered 200), and once given it
\* stays: no later failure of the pipeline changes the reply.
C12_ReplyBeforePipeline ==
  /\ [](\A q \in Req : pc[q] \in ChainSteps => reply[q] = "200")
  /\ [][\A q \in Req : reply[q] = "200" => reply'[q] = "200"]_vars

\* the create_query audit record of query q is stored
HasCreateAudit(d, q) ==
  \E l \in d.activity_logs : l.action = "create_query" /\ l.queryId = q

\* C13: the Query row and its create_query audit record are stored together or not
\* at all: at every moment a query has both rows or neither.
C13_SubmitAtomic ==
  \A q \in Req : (Status(q) # NoRow) <=> HasCreateAudit(db, q)

\* one submission stored both rows, another was answered 500 and stored neither
C13_Witness ==
  \E p, q \in Req :
    /\ Status(p) = "processing" /\ HasCreateAudit(db, p)
    /\ pc[q] = "done" /\ reply[q] = "500"
    /\ Status(q) = NoRow /\ ~HasCreateAudit(db, q)

-----------------------------------------------------------------------------
(* Properties of the side tasks, the realtime events and the chain's order *)

\* C16: an auto-tagging run stores all the associations of the tags it matched
\* together with an audit record of the run, or it stores nothing.
C16_TaggingAtomic ==
  [][\A q \in Req :
       (pc[q] = "autoTagQuery" /\ pc'[q] # pc[q]) =>
         LET matched == classify(text[q] \cup aiResponse[q].text)
         IN \/ db' = db
            \/ /\ TagsOf(db', q) = {matched[i] : i \in 1..Len(matched)}
               /\ \E l \in db'.activity_logs \ db.activity_logs : l.queryId = q]_vars

StepRank(step) ==
  CASE step = "idle" -> 0
    [] step \in {"extractTextFromFile", "transcribeAudio"} -> 1
    [] step = "updateText" -> 2
    [] step = "findSimilarQueries" -> 3
    [] step = "completion" -> 4
    [] step = "getEmbedding" -> 5
    [] step = "updateEmbedding" -> 6
    [] step = "autoTagQuery" -> 7
    [] step = "sendN8nWebhook" -> 8
    [] step = "onFulfilled" -> 9
    [] step = "onRejected" -> 10
    [] step = "done" -> 11

\* C18: no step of a submission runs twice: the chain only moves forward (so the
\* completion provider and each side task are called at most once per query), and
\* a query marked failed has its chain ended for good.
C18_NoRetry ==
  /\ [](\A q \in Req : Status(q) = "failed" => pc[q] = "done")
  /\ [][\A q \in Req :
          pc'[q] # pc[q] => StepRank(pc'[q]) > StepRank(pc[q])]_vars

\* the completion call of a query raised, the query is failed and its chain over
\* while another query completed
C18_Witness ==
  \E p, q \in Req :
    /\ pc[q] = "done" /\ Status(q) = "failed" /\ NumResponses(q) = 0
    /\ pc[p] = "done" /\ Status(p) = "completed"

\* C19: the automation sender makes at most one request per query and never raises
\* to processQuery: whatever the delivery's outcome, the chain goes on to the
\* completion handler with the answer and the store untouched.
C19_WebhookNeverPropagates ==
  /\ [](\A q \in Req : webhooks[q] <= 1)
  /\ [][\A q \in Req :
          (pc[q] = "sendN8nWebhook" /\ pc'[q] # pc[q]) =>
            /\ pc'[q] = "onFulfilled" /\ raised'[q] = "none"
            /\ aiResponse'[q] = aiResponse[q]
            /\ db' = db]_vars

\* two queries are past the sender: for one no request was made (no endpoint), for
\* the other one request was
C19_Witness ==
  \E p, q \in Req :
    /\ pc[p] = "onFulfilled" /\ webhooks[p] = 0
    /\ pc[q] = "onFulfilled" /\ webhooks[q] = 1

\* C20: a request answered with an error (400 or 500) was rejected before anything
\* ran for it and left no trace: the rejecting step starts from the untouched request,
\* leaves the store as it was (no Query row, no audit record), emits nothing and
\* ends the request with no pipeline started.
C20_RejectionLeavesNoTrace ==
  [][\A q \in Req :
       (reply[q] = "none" /\ reply'[q] \in {"400", "500"}) =>
         /\ pc[q] = "idle" /\ pc'[q] = "done"
         /\ db' = db
         /\ emitted' = emitted]_vars

\* C21: storing a (query, tag) association that is already stored leaves the store
\* as it was, and the statements of an auto-tagging run applied a second time
\* change nothing the first application left.
C21_TagAssociationIdempotent ==
  \A q \in Req :
    /\ \A t \in Tags :
         LET s == [op |-> "insert_tag", id |-> q, tag |-> t]
         IN /\ (<<q, t>> \in db.query_tags => Exec(db, s) = db)
            /\ Exec(Exec(db, s), s) = Exec(db, s)
    /\ \A words \in Texts \cup {text[q] \cup aiResponse[q].text} :
         LET stmts == TagStatements(q, classify(words))
         IN /\ ExecAll(ExecAll(db, stmts), stmts) = ExecAll(db, stmts)
            /\ TagsOf(ExecAll(db, stmts), q) =
                 TagsOf(db, q) \cup {stmts[i].tag : i \in 1..Len(stmts)}

\* a query's auto-tagging has stored both tags its text matches: every further
\* association of the run's pairs is a re-association
C21_Witness ==
  \E q \in Req : pc[q] = "sendN8nWebhook" /\ TagsOf(db, q) = Tags

\* C28: a query whose status is failed has no tag association, whatever step
\* failed and whenever it did.
C28_FailedHasNoTags ==
  \A q \in Req : Status(q) = "failed" => TagsOf(db, q) = {}

-----------------------------------------------------------------------------
(* Properties of the response routes *)

\* C10: a Response's embedding, once non-null, is left unchanged (and its row in
\* place) by every rate, publish and article-generation step.
C10_EmbeddingSurvives ==
  [][\A q \in Req : \A i \in 1..NumResponses(q) :
       db.responses[q][i].embedding # NullVector =>
         /\ Len(db'.responses[q]) >= i
         /\ db'.responses[q][i].embedding = db.responses[q][i].embedding]_vars

\* a Response with an embedding has been rated, published and given an article
C10_Witness ==
  \E q \in Req :
    /\ NumResponses(q) = 1
    /\ db.responses[q][1].embedding = StoredVector
    /\ db.responses[q][1].rating # NoRating
    /\ db.responses[q][1].is_published
    /\ db.responses[q][1].seo_article = "article"

\* the rating column of query q's Response rows
Ratings(d, q) == [i \in 1..Len(d.responses[q]) |-> d.responses[q][i].rating]

\* C14: the rating call answers 200 in the very step that stores the rating, whatever
\* article generation is in flight; and a step in which an article generation chain
\* raises (in generateSEOArticle or in the route's .then) leaves the store as it was
\* (seo_article still null, rating unchanged) and reaches no caller's reply.
C14_RatingNeverWaits ==
  [][\A q \in Req :
       /\ (Ratings(db', q) # Ratings(db, q) =>
             opReply' = [route |-> "rate", id |-> q, code |-> "200"])
       /\ (articleTasks'[q].generating + articleTasks'[q].saving
              < articleTasks[q].generating + articleTasks[q].saving =>
             db' = db /\ opReply' = opReply)]_vars

\* a rating at the article threshold is stored and answered 200, the article
\* generation it launched has raised and ended, and seo_article is still null
C14_Witness ==
  \E q \in Req :
    /\ NumResponses(q) = 1
    /\ db.responses[q][1].rating = ArticleRatingThreshold
    /\ db.responses[q][1].seo_article = NULL
    /\ articleTasks[q] = [generating |-> 0, saving |-> 0]
    /\ opReply = [route |-> "rate", id |-> q, code |-> "200"]

\* C15: an external network call is started only while no database transaction is
\* open: the step that starts generateSEOArticle (whose first act is the call to the
\* completion provider) ends with no rate transaction open on the query.
C15_NoCallInsideTransaction ==
  [][\A q \in Req :
       articleTasks'[q].generating > articleTasks[q].generating =>
         openTx'[q] = NoRating]_vars

\* the Response rows of query q with the rating column blanked
ExceptRating(d, q) == SetOnResponses(d.responses[q], "rating", NoRating)

\* what C29 says of the launch of the article generation and of the calls that are
\* refused: at the end of the rate callback a generation is launched exactly when
\* the rating is at or above the threshold and the query has a Response row; a call
\* answered 404 changes nothing
RateLaunchRule ==
  \A q \in Req :
    /\ (openTx[q] = NoRating /\ openTx'[q] # NoRating) =>
         (articleTasks'[q].generating = articleTasks[q].generating + 1
            <=> (openTx'[q] >= ArticleRatingThreshold /\ NumResponses(q) > 0))
    /\ articleTasks'[q].generating > articleTasks[q].generating =>
         (openTx[q] = NoRating /\ openTx'[q] >= ArticleRatingThreshold
            /\ NumResponses(q) > 0)
    /\ (opReply' # opReply /\ opReply' = [route |-> "rate", id |-> q, code |-> "404"]) =>
         UNCHANGED <<db, articleTasks, openTx>>

-----------------------------------------------------------------------------
(* Properties of the engine's functions *)

IsZeroVector(v) == \A i \in 1..Len(v) : v[i] = 0

\* C25: similarity(a, b) returns 0 and never raises whenever a or b is a zero
\* vector, whatever the other vector is, one of another length included
C25_ZeroVectorGivesZero ==
  (/\ result.fn = "cosineSimilarity"
   /\ IsZeroVector(call.vectorA) \/ IsZeroVector(call.vectorB))
  => ~result.raised /\ result.value = 0


\* the similarity the claims speak of, for two vectors of one dimension
Similarity(a, b) == cosineSimilarity(a, b).value

\* C24: nearestNeighbors(query, candidates, threshold) returns exactly the candidates
\* whose similarity to the query is >= threshold (one equal to the threshold
\* included), in order of non-increasing similarity, candidates of equal similarity
\* in their input order
C24_NeighborsExactAndOrdered ==
  (result.fn = "findSimilarDocuments" /\ ~result.raised) =>
    LET found == result.value
        docs == call.documentEmbeddings
        near == {i \in 1..Len(docs) :
                   Similarity(call.queryEmbedding, docs[i]) >= call.threshold}
    IN /\ {found[k].index : k \in 1..Len(found)} = near
       /\ Len(found) = Cardinality(near)
       /\ \A k \in 1..Len(found) :
            found[k].similarity = Similarity(call.queryEmbedding, docs[found[k].index])
       /\ \A k, l \in 1..Len(found) : k < l =>
            /\ found[k].similarity >= found[l].similarity
            /\ found[k].similarity = found[l].similarity
                 => found[k].index < found[l].index

\* a result that holds two candidates of equal similarity, at the threshold, behind
\* a closer candidate that came between them in the input
C24_Witness ==
  /\ result.fn = "findSimilarDocuments" /\ ~result.raised
  /\ Len(result.value) = 3
  /\ result.value[1].index = 2
  /\ result.value[2].similarity = call.threshold
  /\ result.value[3].similarity = call.threshold

\* indices a clustering has emitted in the groups before group k
Visited(groups, k) == UNION {{groups[m][n] : n \in 1..Len(groups[m])} : m \in 1..(k - 1)}

\* C23: cluster(vectors, threshold) emits no group of size 1 and no index twice; each
\* group is a seed followed, in increasing order, by exactly the later indices that
\* were unvisited when the seed was processed and are similar to the seed at or
\* above the threshold
C23_ClustersAroundSeeds ==
  (result.fn = "clusterDocuments" /\ ~result.raised) =>
    LET groups == result.value
        embs == call.embeddings
        places == {pl \in (1..Len(groups)) \X (1..Len(embs)) : pl[2] <= Len(groups[pl[1]])}
    IN /\ \A k \in 1..Len(groups) : Len(groups[k]) > 1
       /\ \A pl, pm \in places :
            groups[pl[1]][pl[2]] = groups[pm[1]][pm[2]] => pl = pm
       /\ \A k \in 1..Len(groups) :
            LET seed == groups[k][1]
            IN /\ {groups[k][n] : n \in 2..Len(groups[k])} =
                    {j \in (seed + 1)..Len(embs) :
                       /\ j \notin Visited(groups, k)
                       /\ Similarity(embs[seed], embs[j]) >= call.similarityThreshold}
               /\ \A n \in 2..Len(groups[k]) : groups[k][n - 1] < groups[k][n]

\* a clustering whose second seed is similar to a member of the first group, and
\* to a member of its own group that is less similar to the first seed
C23_Witness ==
  /\ result.fn = "clusterDocuments" /\ ~result.raised
  /\ Len(result.value) = 2
  /\ \E j \in Visited(result.value, 2) :
       /\ j > result.value[2][1]
       /\ Similarity(call.embeddings[result.value[2][1]], call.embeddings[j])
            >= call.similarityThreshold

\* sum of component i over the vectors of a list
RECURSIVE ColumnSum(_, _)
ColumnSum(embs, i) ==
  IF embs = << >> THEN 0 ELSE Head(embs)[i] + ColumnSum(Tail(embs), i)

\* v is the mean of embs scaled to unit norm: the sums of the components over the
\* square root of their sum of squares
IsUnitMean(v, embs) ==
  /\ Len(v.num) = Len(embs[1])
  /\ SumOfProducts(v.num, v.num) = v.den2
  /\ \A i \in 1..Len(v.num) : v.num[i] = ColumnSum(embs, i)

\* C26 as stated: centroid(vectors) is null for no vectors, and for every non-empty
\* list the component-wise mean scaled to unit L2 norm, a zero mean included
C26_AsStated ==
  result.fn = "createClusterCentroid" =>
    IF Len(call.embeddings) = 0 THEN result.value = NULL
    ELSE IsUnitMean(result.value, call.embeddings)

\* C26: centroid(vectors) is null for no vectors; for a non-empty list whose mean is
\* not the zero vector it is the mean scaled to unit L2 norm, and for one whose
\* mean is the zero vector it is that zero vector
C26_CentroidUnitUnlessZero ==
  result.fn = "createClusterCentroid" =>
    IF Len(call.embeddings) = 0 THEN result.value = NULL
    ELSE IF \A i \in 1..Len(call.embeddings[1]) : ColumnSum(call.embeddings, i) = 0
    THEN IsZeroVector(result.value.num) /\ Len(result.value.num) = Len(call.embeddings[1])
    ELSE IsUnitMean(result.value, call.embeddings)

\* a centroid of three vectors whose sum is not one of them
C26_Witness ==
  /\ result.fn = "createClusterCentroid"
  /\ Len(call.embeddings) = 3
  /\ result.value.num = <<5, 4>>

\* C22: classify returns exactly the tags that have a keyword occurring as a
\* substring of the lower-cased concatenation of question and answer text (joined
\* by the one space autoTagQuery puts between them), so the same input gives the
\* same set, and an empty question with an empty answer gives the empty set
C22_ClassifyExact ==
  result.fn = "autoTagQuery" =>
    LET joined == call.text \o <<" ">> \o call.answer
        lowered == [i \in 1..Len(joined) |->
                      CASE joined[i] = "D" -> "d" [] joined[i] = "T" -> "t"
                        [] joined[i] = "P" -> "p" [] joined[i] = "N" -> "n"
                        [] joined[i] = "A" -> "a" [] OTHER -> joined[i]]
        occurs(keyword) ==
          \E from \in 1..Len(lowered) :
            /\ from + Len(keyword) - 1 <= Len(lowered)
            /\ \A n \in 1..Len(keyword) : lowered[from + n - 1] = keyword[n]
        found == {result.value[k] : k \in 1..Len(result.value)}
    IN /\ found = {t \in Tags : \E keyword \in keywordLetters[t] : occurs(keyword)}
       /\ Len(result.value) = Cardinality(found)
       /\ (call.text = << >> /\ call.answer = << >>) => result.value = << >>

\* a question in capitals and an answer with a capital that give both tags
C22_Witness ==
  /\ result.fn = "autoTagQuery"
  /\ call.text = <<"D", "T", "P">>
  /\ call.answer = <<"N", "a", "s", "l", "e", "d", "n", "i", "k">>
  /\ result.value = TagOrder

\* cosine similarity of a and b at or above pct hundredths
CosineAtLeast(a, b, pct) ==
  /\ a # NullVector /\ b # NullVector
  /\ Dot(a, b) > 0
  /\ 10000 * Dot(a, b) * Dot(a, b) >= pct * pct * Norm2(a) * Norm2(b)

\* C27: context retrieval returns at most 5 snippets, in order of decreasing
\* similarity, from the Responses with a persisted embedding; a candidate is
\* eligible exactly when its similarity to the question is >= 0.8, one at exactly
\* 0.8 included
C27_RetrievalAtThreshold ==
  (result.fn = "findSimilarQueries" /\ ~call.faults) =>
    LET e == getEmbedding(call.text)
        emb(i) == call.rows[i].embedding
        eligible == {i \in 1..Len(call.rows) :
                       CosineAtLeast(emb(i), e, SimilarityThresholdPct)}
        found == result.value
        rows == {found[k].row : k \in 1..Len(found)}
    IN /\ Len(found) = Min(SimilarLimit, Cardinality(eligible))
       /\ Cardinality(rows) = Len(found)
       /\ rows \subseteq eligible
       /\ \A k, l \in 1..Len(found) : k < l => ~Closer(emb(found[l].row), emb(found[k].row), e)
       /\ \A c \in eligible \ rows : \A r \in rows : ~Closer(emb(c), emb(r), e)

\* number of times command occurs in a sequence of commands
Count(commands, command) == Cardinality({i \in 1..Len(commands) : commands[i] = command})

\* C30: the transaction helper releases every client it acquired exactly once on
\* every path (commit, callback error, COMMIT error, ROLLBACK error); when BEGIN,
\* the callback or COMMIT raises it issues ROLLBACK and throws to its caller
\* without having committed
C30_ReleaseOnceRollbackOnRaise ==
  result.fn = "transaction" =>
    LET run == result.value
    IN /\ run.releases = (IF run.acquired THEN 1 ELSE 0)
       /\ (run.acquired /\ call.raisesAt \in {"BEGIN", "callback", "COMMIT"}) =>
            /\ Count(run.commands, "ROLLBACK") = 1
            /\ run.commands[Len(run.commands)] = "ROLLBACK"
            /\ run.threw
            /\ ~run.committed
       /\ (run.acquired /\ call.raisesAt = "none") =>
            /\ Count(run.commands, "ROLLBACK") = 0
            /\ run.commands[Len(run.commands)] = "COMMIT"
            /\ run.committed /\ ~run.threw

\* a run whose COMMIT raised and whose ROLLBACK raised as well
C30_Witness ==
  /\ result.fn = "transaction"
  /\ call.connect /\ call.raisesAt = "COMMIT" /\ ~call.rollback
  /\ call.statements = MaxStatements
  /\ result.value.releases = 1
  /\ result.value.threw

====
